---- MODULE Spec2Model ----
(***************************************************************************)
(* Transaction-lifecycle tracker of src/src/solutions/creativedev.ts.      *)
(*                                                                         *)
(* The tracker is a closure over five collections (pendingTxs, settledTxs, *)
(* doneTxs, newTxs, blockParents) and handles one event at a time.  Each   *)
(* handler is one action.  The chain oracle (getBody, isTxValid,           *)
(* isTxSuccessful) answers the same for the same key during a whole run;   *)
(* the model fixes an answer the first time its key is queried and keeps   *)
(* it in oracleBody / oracleValid / oracleSucc.  The notification sink and *)
(* the oracle's call log are recorded in history variables.                *)
(***************************************************************************)
EXTENDS Integers, Sequences, FiniteSets, TLC

\* ------------------------------------------------------------------------
\* Bounds of the model
\* ------------------------------------------------------------------------
NumBlocks == 2
NumTxs == 2
MaxBodyLen == 2
MaxEvents == 4

BlockNames == <<"b1", "b2", "b3", "b4", "b5", "b6">>
TxNames == <<"t1", "t2", "t3", "t4", "t5", "t6">>

\* Block hashes that NewBlock / Finalized events may name.
Blocks == {BlockNames[i] : i \in 1..NumBlocks}
\* Transaction hashes.
Txs == {TxNames[i] : i \in 1..NumTxs}
\* A parent hash that no NewBlock event ever announces.
Genesis == "genesis"
\* Parent hashes a NewBlock event may carry.
Parents == Blocks \cup {Genesis}

\* The empty string of `blockParents.get(current) || ''` and
\* `settledTxs.get(txHash) || ''`; it is the only falsy hash.
NoHash == ""

Range(s) == {s[i] : i \in 1..Len(s)}

\* The transactions recorded in a first-seen history.
SeenTxs(sn) == {sn[i].tx : i \in 1..Len(sn)}

\* Block bodies the oracle may return: any sequence of transaction hashes,
\* a hash may be listed more than once.
Bodies == UNION {[1..n -> Txs] : n \in 0..MaxBodyLen}

VARIABLES
    pendingTxs,     \* Set<string>
    settledTxs,     \* Map<string, string>: tx -> settlement block
    doneTxs,        \* Set<string>
    newTxs,         \* string[]: the arrival queue
    blockParents,   \* Map<string, string>: block -> parent
    oracleBody,     \* answers of getBody fixed so far: block -> body
    oracleValid,    \* answers of isTxValid fixed so far: <<block, tx>> -> BOOLEAN
    oracleSucc,     \* answers of isTxSuccessful fixed so far
    out,            \* every onTxSettled / onTxDone call of the run, in order
    calls,          \* the oracle calls made while handling the last event
    lookups,        \* every isTxValid / isTxSuccessful call of the run, in order
    unpins,         \* the batches passed to api.unpin during the run
    seen,           \* history: where and when each transaction was first seen, in order
    lastEv,         \* history: the event handled last
    nEvents,        \* history: number of events handled
    hung            \* TRUE once a handler failed to return

trackerVars == <<pendingTxs, settledTxs, doneTxs, newTxs, blockParents>>
oracleVars == <<oracleBody, oracleValid, oracleSucc>>
vars == <<pendingTxs, settledTxs, doneTxs, newTxs, blockParents,
          oracleBody, oracleValid, oracleSucc,
          out, calls, lookups, unpins, seen, lastEv, nEvents, hung>>

\* ------------------------------------------------------------------------
\* Oracle
\* ------------------------------------------------------------------------
\* getBody(blockHash), with `fresh` the answer for a block not queried before.
getBody(blockHash, fresh) ==
    IF blockHash \in DOMAIN oracleBody THEN oracleBody[blockHash] ELSE fresh

\* isTxValid(blockHash, txHash), with `fresh` the answers for keys not
\* queried before.
isTxValid(blockHash, txHash, fresh) ==
    IF <<blockHash, txHash>> \in DOMAIN oracleValid
    THEN oracleValid[<<blockHash, txHash>>] ELSE fresh[txHash]

isTxSuccessful(blockHash, txHash, fresh) ==
    IF <<blockHash, txHash>> \in DOMAIN oracleSucc
    THEN oracleSucc[<<blockHash, txHash>>] ELSE fresh[txHash]

\* The oracle's memory `old` of function fn after the calls cs have been
\* answered, `fresh` being the answers for the keys not queried before.
Answered(fn, cs, old, fresh) ==
    LET keys == {<<cs[i].blockHash, cs[i].tx>> :
                    i \in {j \in 1..Len(cs) : cs[j].fn = fn}}
    IN [k \in (DOMAIN old) \cup keys |->
            IF k \in DOMAIN old THEN old[k] ELSE fresh[k[2]]]

\* The isTxValid / isTxSuccessful calls among the oracle calls cs.
Lookups(cs) == SelectSeq(cs, LAMBDA c : c.fn # "getBody")

\* ------------------------------------------------------------------------
\* Outcomes
\* ------------------------------------------------------------------------
\* Variant: a valid transaction is always reported successful.
ValidOutcome_AlwaysSuccessful(blockHash, successful) ==
    [blockHash |-> blockHash, type |-> "valid", successful |-> TRUE]

ValidOutcome(blockHash, successful) ==
    [blockHash |-> blockHash, type |-> "valid", successful |-> successful]

InvalidOutcome(blockHash) ==
    [blockHash |-> blockHash, type |-> "invalid"]

Init ==
    /\ pendingTxs = {}
    /\ settledTxs = <<>>
    /\ doneTxs = {}
    /\ newTxs = <<>>
    /\ blockParents = <<>>
    /\ oracleBody = <<>>
    /\ oracleValid = <<>>
    /\ oracleSucc = <<>>
    /\ out = <<>>
    /\ calls = <<>>
    /\ lookups = <<>>
    /\ unpins = <<>>
    /\ seen = <<>>
    /\ lastEv = [type |-> "none"]
    /\ nEvents = 0
    /\ hung = FALSE

\* ------------------------------------------------------------------------
\* onNewTx
\* ------------------------------------------------------------------------
\* Variant: the Done set is not consulted.
IsKnown_IgnoresDone(transaction) ==
    \/ transaction \in pendingTxs
    \/ transaction \in DOMAIN settledTxs

\* Variant: only the pending set is consulted.
IsKnown_PendingOnly(transaction) ==
    transaction \in pendingTxs

IsKnown(transaction) ==
    \/ transaction \in pendingTxs
    \/ transaction \in DOMAIN settledTxs
    \/ transaction \in doneTxs

onNewTx(transaction) ==
    /\ ~hung
    /\ nEvents < MaxEvents
    /\ IF ~IsKnown(transaction)
       THEN /\ pendingTxs' = pendingTxs \cup {transaction}
            /\ newTxs' = Append(newTxs, transaction)
       ELSE UNCHANGED <<pendingTxs, newTxs>>
    /\ UNCHANGED <<settledTxs, doneTxs, blockParents>>
    /\ UNCHANGED oracleVars
    /\ UNCHANGED <<out, lookups, unpins, hung>>
    /\ calls' = <<>>
    /\ seen' = IF transaction \in SeenTxs(seen) THEN seen
               ELSE Append(seen, [tx |-> transaction, ev |-> nEvents + 1,
                                  via |-> "newTransaction", block |-> NoHash])
    /\ lastEv' = [type |-> "newTransaction", value |-> transaction]
    /\ nEvents' = nEvents + 1

\* ------------------------------------------------------------------------
\* Map helpers (JavaScript Map)
\* ------------------------------------------------------------------------
MapSet(m, k, v) == [x \in (DOMAIN m) \cup {k} |-> IF x = k THEN v ELSE m[x]]

\* Variant: the entry is not removed.
MapDelete_KeepsEntry(m, k) == m

MapDelete(m, k) == [x \in (DOMAIN m) \ {k} |-> m[x]]

\* `m.get(k) || ''`
MapGetOrEmpty(m, k) == IF k \in DOMAIN m THEN m[k] ELSE NoHash

\* ------------------------------------------------------------------------
\* onNewBlock
\* ------------------------------------------------------------------------
\* One iteration of `for (const txHash of txsInBlock)`.  st carries the
\* collections the loop mutates and the calls it has made so far.
\* Variant: the check forgets the transactions that are Settled.
AlreadySettled_DoneOnly(txHash, settled, done) ==
    txHash \in done

\* Variant: the check forgets the transactions that are already Done.
AlreadySettled_SettledOnly(txHash, settled, done) ==
    txHash \in DOMAIN settled

\* `settledTxs.has(txHash) || doneTxs.has(txHash)`: the transaction is skipped.
AlreadySettled(txHash, settled, done) ==
    txHash \in DOMAIN settled \/ txHash \in done

\* Variant: a transaction that settles is never queued.
Unannounced_NeverQueued(txHash, pending) == FALSE

\* `!pendingTxs.has(txHash)`: the transaction joins the arrival queue now.
Unannounced(txHash, pending) == txHash \notin pending

\* Variant: the loop body reports the transaction with onTxDone.
SettleTx_CallsOnTxDone(blockHash, txHash, st, v, s, ev) ==
    IF AlreadySettled(txHash, st.settledTxs, doneTxs)
    THEN st
    ELSE LET isValid == isTxValid(blockHash, txHash, v)
             outcome == IF isValid
                        THEN ValidOutcome(blockHash,
                                          isTxSuccessful(blockHash, txHash, s))
                        ELSE InvalidOutcome(blockHash)
         IN [pendingTxs |-> st.pendingTxs \ {txHash},
             settledTxs |-> MapSet(st.settledTxs, txHash, blockHash),
             newTxs |-> IF Unannounced(txHash, st.pendingTxs)
                        THEN Append(st.newTxs, txHash) ELSE st.newTxs,
             out |-> Append(st.out, [cb |-> "onTxDone", tx |-> txHash,
                                     outcome |-> outcome, ev |-> ev]),
             calls |-> st.calls
                       \o <<[fn |-> "isTxValid", blockHash |-> blockHash,
                             tx |-> txHash]>>
                       \o (IF isValid
                           THEN <<[fn |-> "isTxSuccessful",
                                   blockHash |-> blockHash, tx |-> txHash]>>
                           ELSE <<>>)]

SettleTx(blockHash, txHash, st, v, s, ev) ==
    IF AlreadySettled(txHash, st.settledTxs, doneTxs)
    THEN st
    ELSE LET isValid == isTxValid(blockHash, txHash, v)
             outcome == IF isValid
                        THEN ValidOutcome(blockHash,
                                          isTxSuccessful(blockHash, txHash, s))
                        ELSE InvalidOutcome(blockHash)
         IN [pendingTxs |-> st.pendingTxs \ {txHash},
             settledTxs |-> MapSet(st.settledTxs, txHash, blockHash),
             newTxs |-> IF Unannounced(txHash, st.pendingTxs)
                        THEN Append(st.newTxs, txHash) ELSE st.newTxs,
             out |-> Append(st.out, [cb |-> "onTxSettled", tx |-> txHash,
                                     outcome |-> outcome, ev |-> ev]),
             calls |-> st.calls
                       \o <<[fn |-> "isTxValid", blockHash |-> blockHash,
                             tx |-> txHash]>>
                       \o (IF isValid
                           THEN <<[fn |-> "isTxSuccessful",
                                   blockHash |-> blockHash, tx |-> txHash]>>
                           ELSE <<>>)]

\* Variant: the body is visited in arrival-queue order, unannounced
\* transactions last.
SettleOrder_ArrivalOrder(txsInBlock) ==
    SelectSeq(newTxs, LAMBDA t : t \in Range(txsInBlock))
    \o SelectSeq(txsInBlock, LAMBDA t : t \notin Range(newTxs))

\* The order in which the loop visits the body.
SettleOrder(txsInBlock) == txsInBlock

RECURSIVE SettleLoop(_, _, _, _, _, _, _)
SettleLoop(blockHash, order, i, st, v, s, ev) ==
    IF i > Len(order) THEN st
    ELSE SettleLoop(blockHash, order, i + 1,
                    SettleTx(blockHash, order[i], st, v, s, ev), v, s, ev)

\* History: the transactions of a body that were never seen before are seen
\* now, in body order.
RECURSIVE SeenAfter(_, _, _, _, _)
SeenAfter(sn, blockHash, txsInBlock, i, ev) ==
    IF i > Len(txsInBlock) THEN sn
    ELSE SeenAfter(IF txsInBlock[i] \in SeenTxs(sn) THEN sn
                   ELSE Append(sn, [tx |-> txsInBlock[i], ev |-> ev,
                                    via |-> "newBlock", block |-> blockHash]),
                   blockHash, txsInBlock, i + 1, ev)

\* TRUE iff the call was made with a key the oracle had not answered before.
FreshlyAsked(fn, blockHash, txHash, cs, old) ==
    /\ <<blockHash, txHash>> \notin DOMAIN old
    /\ \E i \in 1..Len(cs) : cs[i] = [fn |-> fn, blockHash |-> blockHash,
                                      tx |-> txHash]

\* The bodies getBody may answer for a block: any body for a block it has not
\* been asked about, and nothing new to choose otherwise.
FreshBodies(blockHash) ==
    IF blockHash \in DOMAIN oracleBody THEN {<<>>} ELSE Bodies

onNewBlock(blockHash, parent) ==
    /\ ~hung
    /\ nEvents < MaxEvents
    /\ \E fb \in FreshBodies(blockHash),
          v \in [Txs -> BOOLEAN], s \in [Txs -> BOOLEAN] :
        LET txsInBlock == getBody(blockHash, fb)
            st == SettleLoop(blockHash, SettleOrder(txsInBlock), 1,
                             [pendingTxs |-> pendingTxs,
                              settledTxs |-> settledTxs,
                              newTxs |-> newTxs,
                              out |-> out,
                              calls |-> <<[fn |-> "getBody",
                                           blockHash |-> blockHash]>>],
                             v, s, nEvents + 1)
        IN  \* answers that are never asked for are left out of the choice
            /\ \A t \in Txs :
                 /\ v[t] => FreshlyAsked("isTxValid", blockHash, t,
                                         st.calls, oracleValid)
                 /\ s[t] => FreshlyAsked("isTxSuccessful", blockHash, t,
                                         st.calls, oracleSucc)
            /\ blockParents' = MapSet(blockParents, blockHash, parent)
            /\ pendingTxs' = st.pendingTxs
            /\ settledTxs' = st.settledTxs
            /\ newTxs' = st.newTxs
            /\ out' = st.out
            /\ calls' = st.calls
            /\ lookups' = lookups \o Lookups(st.calls)
            /\ oracleBody' = MapSet(oracleBody, blockHash, txsInBlock)
            /\ oracleValid' = Answered("isTxValid", st.calls, oracleValid, v)
            /\ oracleSucc' = Answered("isTxSuccessful", st.calls, oracleSucc, s)
            /\ seen' = SeenAfter(seen, blockHash, txsInBlock, 1, nEvents + 1)
    /\ UNCHANGED <<doneTxs, unpins, hung>>
    /\ lastEv' = [type |-> "newBlock", blockHash |-> blockHash,
                  parent |-> parent]
    /\ nEvents' = nEvents + 1

\* ------------------------------------------------------------------------
\* onFinalized
\* ------------------------------------------------------------------------
\* `while (current) { finalizedBlocks.add(current);
\*                    current = blockParents.get(current) || '' }`
\* The walk returns the blocks it collected, or never returns when it comes
\* back to a block it has already visited.
\* Variant: every known block is collected, whatever its place in the tree.
Walk_AllKnownBlocks(current, finalizedBlocks) ==
    [blocks |-> {current} \cup DOMAIN blockParents, returns |-> TRUE]

\* Variant: the walk follows one parent link and stops.
Walk_OneParentLink(current, finalizedBlocks) ==
    [blocks |-> IF current = NoHash THEN {}
                ELSE {current} \cup ({MapGetOrEmpty(blockParents, current)}
                                     \ {NoHash}),
     returns |-> TRUE]

\* Variant: only the block named by the event is collected, its ancestors
\* are not.
Walk_NamedBlockOnly(current, finalizedBlocks) ==
    [blocks |-> IF current = NoHash THEN {} ELSE {current}, returns |-> TRUE]

RECURSIVE Walk(_, _)
Walk(current, finalizedBlocks) ==
    IF current = NoHash
    THEN [blocks |-> finalizedBlocks, returns |-> TRUE]
    ELSE IF current \in finalizedBlocks
    THEN [blocks |-> finalizedBlocks, returns |-> FALSE]
    ELSE Walk(MapGetOrEmpty(blockParents, current),
              finalizedBlocks \cup {current})

\* Variant: a Settled transaction is taken when the body of a finalized
\* block lists it.
TxsToDone_ByBody(finalizedBlocks) ==
    {txHash \in DOMAIN settledTxs :
        \E b \in finalizedBlocks \cap DOMAIN oracleBody :
            txHash \in Range(oracleBody[b])}

\* Variant: every Settled transaction is taken, wherever it settled.
TxsToDone_AllSettled(finalizedBlocks) ==
    DOMAIN settledTxs

\* Variant: every queued transaction that is not Done yet is taken.
TxsToDone_AllQueued(finalizedBlocks) ==
    Range(newTxs) \ doneTxs

TxsToDone(finalizedBlocks) ==
    {txHash \in DOMAIN settledTxs : settledTxs[txHash] \in finalizedBlocks}

\* Variant: the outcome is computed for the block named by the Finalized
\* event.
DoneBlockHash_FinalizedBlock(txHash, settled, finalized) == finalized

\* The block hash reported in the outcome passed to onTxDone.
DoneBlockHash(txHash, settled, finalized) == MapGetOrEmpty(settled, txHash)

\* One iteration of `for (const txHash of newTxs)`.
DoneTx(txHash, st, txsToDone, finalized, v, s, ev) ==
    IF txHash \notin txsToDone
    THEN st
    ELSE LET blockHash == DoneBlockHash(txHash, st.settledTxs, finalized)
             isValid == isTxValid(blockHash, txHash, v)
             outcome == IF isValid
                        THEN ValidOutcome(blockHash,
                                          isTxSuccessful(blockHash, txHash, s))
                        ELSE InvalidOutcome(blockHash)
         IN [settledTxs |-> MapDelete(st.settledTxs, txHash),
             doneTxs |-> st.doneTxs \cup {txHash},
             out |-> Append(st.out, [cb |-> "onTxDone", tx |-> txHash,
                                     outcome |-> outcome, ev |-> ev]),
             calls |-> st.calls
                       \o <<[fn |-> "isTxValid", blockHash |-> blockHash,
                             tx |-> txHash]>>
                       \o (IF isValid
                           THEN <<[fn |-> "isTxSuccessful",
                                   blockHash |-> blockHash, tx |-> txHash]>>
                           ELSE <<>>)]

\* Variant: the candidates are visited in the order they settled (the
\* insertion order of the settledTxs map).
DoneOrder_SettlementOrder(queue) ==
    LET settledCalls == SelectSeq(out, LAMBDA e : e.cb = "onTxSettled")
    IN [i \in 1..Len(settledCalls) |-> settledCalls[i].tx]

\* The order in which the loop visits the candidates.
DoneOrder(queue) == queue

RECURSIVE DoneLoop(_, _, _, _, _, _, _, _)
DoneLoop(order, i, st, txsToDone, finalized, v, s, ev) ==
    IF i > Len(order) THEN st
    ELSE DoneLoop(order, i + 1,
                  DoneTx(order[i], st, txsToDone, finalized, v, s, ev),
                  txsToDone, finalized, v, s, ev)

onFinalized(blockHash) ==
    /\ ~hung
    /\ nEvents < MaxEvents
    /\ LET walk == Walk(blockHash, {})
       IN IF ~walk.returns
          THEN \* the ancestry walk spins forever; nothing after it runs
               /\ hung' = TRUE
               /\ calls' = <<>>
               /\ UNCHANGED lookups
               /\ UNCHANGED trackerVars
               /\ UNCHANGED oracleVars
               /\ UNCHANGED out
          ELSE \E v \in [Txs -> BOOLEAN], s \in [Txs -> BOOLEAN] :
               LET st == DoneLoop(DoneOrder(newTxs), 1,
                                  [settledTxs |-> settledTxs,
                                   doneTxs |-> doneTxs,
                                   out |-> out,
                                   calls |-> <<>>],
                                  TxsToDone(walk.blocks), blockHash,
                                  v, s, nEvents + 1)
                   asked == {st.calls[i].blockHash : i \in 1..Len(st.calls)}
               IN /\ \A t \in Txs :
                       /\ v[t] => \E b \in asked :
                                    FreshlyAsked("isTxValid", b, t,
                                                 st.calls, oracleValid)
                       /\ s[t] => \E b \in asked :
                                    FreshlyAsked("isTxSuccessful", b, t,
                                                 st.calls, oracleSucc)
                  /\ settledTxs' = st.settledTxs
                  /\ doneTxs' = st.doneTxs
                  /\ out' = st.out
                  /\ calls' = st.calls
                  /\ lookups' = lookups \o Lookups(st.calls)
                  /\ oracleValid' = Answered("isTxValid", st.calls, oracleValid, v)
                  /\ oracleSucc' = Answered("isTxSuccessful", st.calls, oracleSucc, s)
                  /\ UNCHANGED <<pendingTxs, newTxs, blockParents,
                                 oracleBody, hung>>
    /\ UNCHANGED <<unpins, seen>>
    /\ lastEv' = [type |-> "finalized", blockHash |-> blockHash]
    /\ nEvents' = nEvents + 1

\* ------------------------------------------------------------------------
\* The dispatcher: one event at a time, each handled to completion
\* ------------------------------------------------------------------------
Next ==
    \/ \E b \in Blocks, p \in Parents : onNewBlock(b, p)
    \/ \E t \in Txs : onNewTx(t)
    \/ \E b \in Blocks : onFinalized(b)

Spec == Init /\ [][Next]_vars

\* ------------------------------------------------------------------------
\* Vocabulary of the properties
\* ------------------------------------------------------------------------
\* Positions in `out` of the calls of callback cb for transaction t.
Emitted(cb, t) == {i \in 1..Len(out) : out[i].cb = cb /\ out[i].tx = t}

\* Positions in `out` of the calls of callback cb made by the last event.
ThisEvent(cb) == {i \in 1..Len(out) : out[i].cb = cb /\ out[i].ev = nEvents}

\* Position of t in the first-seen history, 0 when t was never seen.
SeenPos(t) ==
    IF t \in SeenTxs(seen) THEN CHOOSE k \in 1..Len(seen) : seen[k].tx = t
    ELSE 0

\* How t was first seen: "newTransaction", "newBlock" or "never".
SeenVia(t) == IF SeenPos(t) = 0 THEN "never" ELSE seen[SeenPos(t)].via

\* The body of the block named by the last event, a NewBlock event.
LastBody == oracleBody[lastEv.blockHash]

\* The blocks reachable from b in at most n steps along the recorded parent
\* links.
RECURSIVE ReachWithin(_, _)
ReachWithin(b, n) ==
    IF n = 0 THEN {b}
    ELSE LET r == ReachWithin(b, n - 1)
         IN r \cup {blockParents[x] : x \in r \cap DOMAIN blockParents}

\* b and every block reachable from b along the recorded parent links.
Chain(b) == ReachWithin(b, Cardinality(DOMAIN blockParents))

\* The known blocks that have F on their chain, F excluded.
Descendants(F) == {b \in DOMAIN blockParents : b # F /\ F \in Chain(b)}

\* The outcome the oracle's answers give transaction t in block b.
OracleOutcome(b, t) ==
    IF <<b, t>> \notin DOMAIN oracleValid THEN [type |-> "unknown"]
    ELSE IF ~oracleValid[<<b, t>>] THEN InvalidOutcome(b)
    ELSE IF <<b, t>> \notin DOMAIN oracleSucc THEN [type |-> "unknown"]
    ELSE ValidOutcome(b, oracleSucc[<<b, t>>])

\* t has received onTxSettled and not yet onTxDone.
SettledNow(t) == Emitted("onTxSettled", t) # {} /\ Emitted("onTxDone", t) = {}

\* The blocks named in the outcomes of the onTxSettled calls for t.
SettledBlocks(t) == {out[i].outcome.blockHash : i \in Emitted("onTxSettled", t)}

\* ------------------------------------------------------------------------
\* C1
\* ------------------------------------------------------------------------
\* C1: over the whole run every transaction receives at most one onTxSettled
\* call and at most one onTxDone call.
C1_AtMostOnce ==
    \A t \in Txs :
        /\ Cardinality(Emitted("onTxSettled", t)) <= 1
        /\ Cardinality(Emitted("onTxDone", t)) <= 1

\* A NewBlock event has just been handled whose body lists a transaction
\* that is already Done (it was settled and finalized before).
C1_Witness ==
    /\ lastEv.type = "newBlock"
    /\ \E t \in doneTxs :
         /\ t \in Range(LastBody)
         /\ Emitted("onTxSettled", t) # {}
         /\ Emitted("onTxDone", t) # {}

\* ------------------------------------------------------------------------
\* C2
\* ------------------------------------------------------------------------
\* C2: every onTxDone call is preceded in the run by an onTxSettled call for
\* the same transaction.
C2_DoneAfterSettled ==
    \A i \in 1..Len(out) :
        out[i].cb = "onTxDone" =>
            \E j \in 1..(i - 1) :
                out[j].cb = "onTxSettled" /\ out[j].tx = out[i].tx

\* A Finalized event has just emitted onTxDone while another known
\* transaction is still Pending.
C2_Witness ==
    /\ lastEv.type = "finalized"
    /\ ThisEvent("onTxDone") # {}
    /\ pendingTxs # {}

\* ------------------------------------------------------------------------
\* C3
\* ------------------------------------------------------------------------
\* The position at which t is first listed in a body that lists it.
FirstPos(body, t) ==
    CHOOSE k \in 1..Len(body) :
        body[k] = t /\ \A j \in 1..(k - 1) : body[j] # t

\* C3: two transactions that settle in the same NewBlock event receive
\* onTxSettled in the order in which the block body lists them; a body may
\* list a transaction more than once, and then its first listing counts.
C3_SettledInBodyOrder ==
    lastEv.type = "newBlock" =>
        \A i, j \in ThisEvent("onTxSettled") :
            (/\ out[i].tx \in Range(LastBody)
             /\ out[j].tx \in Range(LastBody)
             /\ FirstPos(LastBody, out[i].tx) < FirstPos(LastBody, out[j].tx))
            => i < j

\* Two transactions settled in the last NewBlock event, and the one settled
\* second had been announced by NewTransaction before the one settled first.
C3_Witness ==
    /\ lastEv.type = "newBlock"
    /\ \E i, j \in ThisEvent("onTxSettled") :
         /\ i < j
         /\ SeenVia(out[i].tx) = "newTransaction"
         /\ SeenVia(out[j].tx) = "newTransaction"
         /\ SeenPos(out[j].tx) < SeenPos(out[i].tx)

\* ------------------------------------------------------------------------
\* C4
\* ------------------------------------------------------------------------
\* C4: the transactions that become Done in the same Finalized event receive
\* onTxDone in the order in which they were first seen.
C4_DoneInFirstSeenOrder ==
    lastEv.type = "finalized" =>
        \A i, j \in ThisEvent("onTxDone") :
            i < j => SeenPos(out[i].tx) < SeenPos(out[j].tx)

\* Two transactions became Done in the last Finalized event; they settled in
\* different blocks, and the one reported first had settled last.
C4_Witness ==
    /\ lastEv.type = "finalized"
    /\ \E i, j \in ThisEvent("onTxDone") :
         /\ i < j
         /\ out[i].outcome.blockHash # out[j].outcome.blockHash
         /\ \E k \in Emitted("onTxSettled", out[i].tx),
               l \in Emitted("onTxSettled", out[j].tx) : l < k

\* ------------------------------------------------------------------------
\* C5
\* ------------------------------------------------------------------------
\* C5: two transactions that were both announced by NewTransaction and settle
\* in the same NewBlock event receive onTxSettled in the order in which they
\* were announced, whatever their positions in the block body.
C5_SettledInArrivalOrder ==
    lastEv.type = "newBlock" =>
        \A i, j \in ThisEvent("onTxSettled") :
            /\ SeenVia(out[i].tx) = "newTransaction"
            /\ SeenVia(out[j].tx) = "newTransaction"
            /\ SeenPos(out[i].tx) < SeenPos(out[j].tx)
            => i < j

\* ------------------------------------------------------------------------
\* C6
\* ------------------------------------------------------------------------
\* C6: a NewTransaction event for a transaction seen before emits no
\* callback, makes no oracle call and leaves pendingTxs, settledTxs, doneTxs,
\* newTxs and blockParents unchanged.
C6_DuplicateNewTxIsNoOp ==
    [][ (lastEv'.type = "newTransaction" /\ lastEv'.value \in SeenTxs(seen))
        => /\ UNCHANGED <<pendingTxs, settledTxs, doneTxs, newTxs, blockParents>>
           /\ out' = out
           /\ calls' = <<>>
           /\ unpins' = unpins
           /\ UNCHANGED <<oracleBody, oracleValid, oracleSucc>> ]_vars

\* A NewTransaction event has just been handled for a transaction that was
\* already Settled or Done.
C6_Witness ==
    /\ lastEv.type = "newTransaction"
    /\ lastEv.value \in (DOMAIN settledTxs) \cup doneTxs
    /\ Emitted("onTxSettled", lastEv.value) # {}

\* ------------------------------------------------------------------------
\* C7
\* ------------------------------------------------------------------------
\* C7: when a Finalized event for block C is handled, every transaction that
\* was Settled in C or in a block reachable from C along the recorded parent
\* links receives onTxDone during that event and is Done afterwards, not
\* Settled.  An event whose handler never returns delivers no onTxDone.
C7_FinalizationGap ==
    [][ lastEv'.type = "finalized"
        => \A t \in Txs :
             (SettledNow(t)
              /\ SettledBlocks(t) \cap Chain(lastEv'.blockHash) # {})
             => /\ t \in doneTxs'
                /\ t \notin DOMAIN settledTxs'
                /\ \E i \in 1..Len(out') :
                     /\ out'[i].cb = "onTxDone"
                     /\ out'[i].tx = t
                     /\ out'[i].ev = nEvents' ]_vars

\* The part of C7 the handler satisfies: the same statement for the Finalized
\* events whose ancestry walk returns.
C7_GapWhenWalkReturns ==
    [][ (lastEv'.type = "finalized" /\ ~hung')
        => \A t \in Txs :
             (SettledNow(t)
              /\ SettledBlocks(t) \cap Chain(lastEv'.blockHash) # {})
             => /\ t \in doneTxs'
                /\ t \notin DOMAIN settledTxs'
                /\ \E i \in 1..Len(out') :
                     /\ out'[i].cb = "onTxDone"
                     /\ out'[i].tx = t
                     /\ out'[i].ev = nEvents' ]_vars

\* The last Finalized event named a block, and a transaction settled in
\* another block, an ancestor, became Done in it.
C7_OneHop ==
    /\ lastEv.type = "finalized"
    /\ ~hung
    /\ \E i \in ThisEvent("onTxDone") :
         /\ out[i].outcome.blockHash # lastEv.blockHash
         /\ out[i].outcome.blockHash \in Chain(lastEv.blockHash)
         /\ out[i].tx \in doneTxs

\* The same two parent links away: the transaction settled in the parent of
\* the parent of the finalized block (reachable with three blocks or more).
C7_TwoHops ==
    /\ lastEv.type = "finalized"
    /\ ~hung
    /\ \E i \in ThisEvent("onTxDone") :
         LET C == lastEv.blockHash
             A == out[i].outcome.blockHash
         IN /\ C \in DOMAIN blockParents
            /\ blockParents[C] \in DOMAIN blockParents
            /\ blockParents[C] \notin {C, A}
            /\ blockParents[blockParents[C]] = A
            /\ A # C
            /\ out[i].tx \in doneTxs

\* The handler of a Finalized event naming a block whose parent chain comes
\* back to it never returned, and a transaction settled in that block is
\* still Settled.
C7_LeftSettled ==
    /\ lastEv.type = "finalized"
    /\ hung
    /\ \E t \in DOMAIN settledTxs : settledTxs[t] = lastEv.blockHash

\* ------------------------------------------------------------------------
\* C8
\* ------------------------------------------------------------------------
\* C8: the outcome passed to onTxDone for a transaction equals the outcome
\* that was passed to its onTxSettled (block hash, type and successful flag).
C8_DoneOutcomeIsSettledOutcome ==
    \A i, j \in 1..Len(out) :
        (out[i].cb = "onTxDone" /\ out[j].cb = "onTxSettled"
         /\ out[i].tx = out[j].tx)
        => out[i].outcome = out[j].outcome

\* A valid transaction became Done in a Finalized event that named another
\* block than its settlement block, a block whose body lists it too.
C8_Witness ==
    /\ lastEv.type = "finalized"
    /\ \E i \in ThisEvent("onTxDone") :
         /\ out[i].outcome.type = "valid"
         /\ out[i].outcome.blockHash # lastEv.blockHash
         /\ lastEv.blockHash \in DOMAIN oracleBody
         /\ out[i].tx \in Range(oracleBody[lastEv.blockHash])

\* ------------------------------------------------------------------------
\* C9
\* ------------------------------------------------------------------------
\* C9: a transaction first seen in the body of a NewBlock event received
\* onTxSettled in that event with that block's outcome, sits in the arrival
\* queue at its first-seen rank, and in a Finalized event it is reported Done
\* after the transactions seen before it and before those seen after it.
C9_UnannouncedSettlesAndQueues ==
    /\ \A k \in 1..Len(seen) :
         seen[k].via = "newBlock" =>
            /\ \E i \in Emitted("onTxSettled", seen[k].tx) :
                 /\ out[i].ev = seen[k].ev
                 /\ out[i].outcome = OracleOutcome(seen[k].block, seen[k].tx)
            /\ k <= Len(newTxs)
            /\ newTxs[k] = seen[k].tx
    /\ lastEv.type = "finalized" =>
         \A i, j \in ThisEvent("onTxDone") :
            /\ \/ SeenVia(out[i].tx) = "newBlock"
               \/ SeenVia(out[j].tx) = "newBlock"
            /\ SeenPos(out[i].tx) < SeenPos(out[j].tx)
            => i < j

\* An unannounced transaction settled ahead of an announced one in the same
\* body, and the last Finalized event reported the announced one Done first.
C9_Witness ==
    /\ lastEv.type = "finalized"
    /\ \E i, j \in ThisEvent("onTxDone") :
         /\ i < j
         /\ SeenVia(out[i].tx) = "newTransaction"
         /\ SeenVia(out[j].tx) = "newBlock"
         /\ \E k \in Emitted("onTxSettled", out[j].tx),
               l \in Emitted("onTxSettled", out[i].tx) : k < l

\* ------------------------------------------------------------------------
\* C10
\* ------------------------------------------------------------------------
\* The known strict ancestors of F.
StrictAncestors(F) == (Chain(F) \ {F}) \cap DOMAIN blockParents

\* The known blocks on an abandoned fork: neither on F's chain nor
\* descendants of F.
AbandonedForks(F) == (DOMAIN blockParents) \ (Chain(F) \cup Descendants(F))

\* C10: when a Finalized event for a known block F has been handled, api.unpin
\* has been called in that event with a batch that contains every known
\* strict ancestor of F and every known block on an abandoned fork, and no
\* batch ever contains F or a descendant of F.
C10_UnpinBatch ==
    (lastEv.type = "finalized" /\ ~hung
     /\ lastEv.blockHash \in DOMAIN blockParents)
    => LET F == lastEv.blockHash
           must == StrictAncestors(F) \cup AbandonedForks(F)
       IN /\ must # {} =>
                \E u \in 1..Len(unpins) :
                    unpins[u].ev = nEvents /\ must \subseteq unpins[u].batch
          /\ \A u \in 1..Len(unpins) :
                unpins[u].ev = nEvents =>
                    unpins[u].batch \cap ({F} \cup Descendants(F)) = {}
\* ------------------------------------------------------------------------
\* C11
\* ------------------------------------------------------------------------
\* C11: over the whole run isTxValid is called at most once and
\* isTxSuccessful at most once for each (blockHash, txId) pair.
C11_NoRedundantLookups ==
    \A i, j \in 1..Len(lookups) : lookups[i] = lookups[j] => i = j
\* ------------------------------------------------------------------------
\* C12
\* ------------------------------------------------------------------------
\* C12: a Finalized event for F emits onTxDone only for transactions that
\* were Settled before it in F or in a block reachable from F along the
\* parent links; a transaction settled in any other block (a fork, a
\* descendant of F) is not reported and stays Settled in its block.
C12_DoneOnlyOnChain ==
    [][ lastEv'.type = "finalized"
        => LET F == lastEv'.blockHash
           IN /\ \A i \in (Len(out) + 1)..Len(out') :
                    out'[i].cb = "onTxDone"
                    => /\ SettledNow(out'[i].tx)
                       /\ SettledBlocks(out'[i].tx) \subseteq Chain(F)
              /\ \A t \in Txs :
                    (SettledNow(t) /\ SettledBlocks(t) \cap Chain(F) = {})
                    => /\ t \in DOMAIN settledTxs'
                       /\ settledTxs'[t] \in SettledBlocks(t)
                       /\ t \notin doneTxs'
                       /\ \A i \in (Len(out) + 1)..Len(out') :
                            out'[i].tx # t ]_vars

\* The last Finalized event named a known block and reported a transaction
\* Done, while a transaction settled in a descendant of that block stayed
\* Settled.
C12_Witness ==
    /\ lastEv.type = "finalized"
    /\ ~hung
    /\ lastEv.blockHash \in DOMAIN blockParents
    /\ ThisEvent("onTxDone") # {}
    /\ \E t \in DOMAIN settledTxs :
         settledTxs[t] \in Descendants(lastEv.blockHash)

\* ------------------------------------------------------------------------
\* C13
\* ------------------------------------------------------------------------
\* C13: a NewBlock event whose body lists a transaction that has already
\* received onTxSettled skips it: no callback and no oracle lookup is made
\* for it, and it keeps its settlement block (or stays Done).
C13_FirstSettlementWins ==
    [][ lastEv'.type = "newBlock"
        => \A t \in Range(oracleBody'[lastEv'.blockHash]) :
             Emitted("onTxSettled", t) # {}
             => /\ \A i \in (Len(out) + 1)..Len(out') : out'[i].tx # t
                /\ \A k \in 1..Len(calls') :
                     calls'[k].fn # "getBody" => calls'[k].tx # t
                /\ t \in DOMAIN settledTxs
                   => /\ t \in DOMAIN settledTxs'
                      /\ settledTxs'[t] = settledTxs[t]
                /\ t \in doneTxs
                   => /\ t \in doneTxs'
                      /\ t \notin DOMAIN settledTxs' ]_vars

\* The last NewBlock event named a block whose body lists a transaction
\* that is Settled in another block.
C13_Witness ==
    /\ lastEv.type = "newBlock"
    /\ \E t \in Range(LastBody) \cap DOMAIN settledTxs :
         /\ settledTxs[t] # lastEv.blockHash
         /\ SettledBlocks(t) = {settledTxs[t]}

\* ------------------------------------------------------------------------
\* C14
\* ------------------------------------------------------------------------
\* C14: no event moves a transaction backward: a Done transaction stays Done
\* (and is neither Settled nor Pending), a Settled transaction stays Settled
\* or becomes Done and is never Pending again, a known transaction stays
\* known, and only a Settled transaction becomes Done.
C14_LifecycleMovesForward ==
    [][ \A t \in Txs :
          /\ t \in doneTxs
             => /\ t \in doneTxs'
                /\ t \notin DOMAIN settledTxs'
                /\ t \notin pendingTxs'
          /\ t \in DOMAIN settledTxs
             => /\ t \in (DOMAIN settledTxs') \cup doneTxs'
                /\ t \notin pendingTxs'
          /\ t \in pendingTxs
             => /\ t \in pendingTxs' \cup DOMAIN settledTxs'
                /\ t \notin doneTxs'
          /\ ~IsKnown(t) => t \notin doneTxs' ]_vars

\* A transaction went through all three states: it was announced by
\* NewTransaction, received onTxSettled and onTxDone, and is Done, and an
\* event was handled after that.
C14_Witness ==
    /\ lastEv.type # "finalized"
    /\ \E t \in doneTxs :
         /\ SeenVia(t) = "newTransaction"
         /\ Emitted("onTxSettled", t) # {}
         /\ Emitted("onTxDone", t) # {}
\* ------------------------------------------------------------------------
\* C15
\* ------------------------------------------------------------------------
\* C15: a Finalized event that names a block never announced by NewBlock
\* returns, emits no callback, makes no oracle call and leaves pendingTxs,
\* settledTxs, doneTxs, newTxs and blockParents unchanged.
C15_FinalizedUnknownBlockIsNoOp ==
    [][ (lastEv'.type = "finalized"
         /\ lastEv'.blockHash \notin DOMAIN blockParents)
        => /\ ~hung'
           /\ UNCHANGED <<pendingTxs, settledTxs, doneTxs, newTxs, blockParents>>
           /\ out' = out
           /\ calls' = <<>>
           /\ lookups' = lookups ]_vars

\* The last Finalized event named a block that no NewBlock event announced,
\* while a transaction was Settled in an announced block that names it as
\* its parent.
C15_Witness ==
    /\ lastEv.type = "finalized"
    /\ lastEv.blockHash \notin DOMAIN blockParents
    /\ \E t \in DOMAIN settledTxs :
         /\ settledTxs[t] \in DOMAIN blockParents
         /\ blockParents[settledTxs[t]] = lastEv.blockHash

\* ------------------------------------------------------------------------
\* C16
\* ------------------------------------------------------------------------
\* C16: the handler of every Finalized event returns, also when the recorded
\* parent links contain a cycle.
C16_FinalizedTerminates ==
    lastEv.type = "finalized" => ~hung

\* ------------------------------------------------------------------------
\* C17
\* ------------------------------------------------------------------------
\* C17: every onTxSettled call made by a NewBlock event for block B is for a
\* transaction of B's body, names B, is valid exactly when isTxValid(B, tx)
\* is true and then carries isTxSuccessful(B, tx); isTxSuccessful is never
\* called for a pair for which isTxValid answered false.
C17_SettledOutcomeFromOracle ==
    /\ lastEv.type = "newBlock" =>
         \A i \in ThisEvent("onTxSettled") :
            LET B == lastEv.blockHash
                t == out[i].tx
                o == out[i].outcome
            IN /\ t \in Range(LastBody)
               /\ o.blockHash = B
               /\ o.type \in {"valid", "invalid"}
               /\ <<B, t>> \in DOMAIN oracleValid
               /\ (o.type = "valid") = oracleValid[<<B, t>>]
               /\ o.type = "valid"
                  => /\ <<B, t>> \in DOMAIN oracleSucc
                     /\ o.successful = oracleSucc[<<B, t>>]
    /\ \A k \in 1..Len(lookups) :
         lookups[k].fn = "isTxSuccessful"
         => /\ <<lookups[k].blockHash, lookups[k].tx>> \in DOMAIN oracleValid
            /\ oracleValid[<<lookups[k].blockHash, lookups[k].tx>>]

\* The last NewBlock event settled one transaction as valid but not
\* successful and another one as invalid.
C17_Witness ==
    /\ lastEv.type = "newBlock"
    /\ \E i, j \in ThisEvent("onTxSettled") :
         /\ out[i].outcome.type = "valid"
         /\ ~out[i].outcome.successful
         /\ out[j].outcome.type = "invalid"
\* ------------------------------------------------------------------------
\* C18
\* ------------------------------------------------------------------------
\* C18: onTxSettled is called only while a NewBlock event is handled,
\* onTxDone only while a Finalized event is handled, and a NewTransaction
\* event makes no callback and no oracle call.
C18_CallbacksTiedToEvents ==
    [][ /\ \A i \in (Len(out) + 1)..Len(out') :
             /\ out'[i].cb = "onTxSettled" => lastEv'.type = "newBlock"
             /\ out'[i].cb = "onTxDone" => lastEv'.type = "finalized"
        /\ lastEv'.type = "newTransaction"
           => /\ out' = out
              /\ calls' = <<>>
              /\ lookups' = lookups
              /\ unpins' = unpins
              /\ UNCHANGED <<oracleBody, oracleValid, oracleSucc>> ]_vars

\* Both callbacks have been made in the run, and the last event was a
\* NewTransaction event for a transaction never seen before.
C18_Witness ==
    /\ lastEv.type = "newTransaction"
    /\ lastEv.value \in pendingTxs
    /\ \E i, j \in 1..Len(out) :
         out[i].cb = "onTxSettled" /\ out[j].cb = "onTxDone"

\* ------------------------------------------------------------------------
\* C19
\* ------------------------------------------------------------------------
\* C19: between events pendingTxs, the keys of settledTxs and doneTxs are
\* pairwise disjoint, newTxs holds no transaction twice, and the
\* transactions of newTxs are exactly those of the three collections.
C19_TablesPartitionQueue ==
    /\ pendingTxs \cap DOMAIN settledTxs = {}
    /\ pendingTxs \cap doneTxs = {}
    /\ (DOMAIN settledTxs) \cap doneTxs = {}
    /\ \A i, j \in 1..Len(newTxs) : newTxs[i] = newTxs[j] => i = j
    /\ Range(newTxs) = pendingTxs \cup (DOMAIN settledTxs) \cup doneTxs

\* One transaction is Done, another one is known and not Done, and a
\* NewTransaction event has just named the Done one again.
C19_Witness ==
    /\ lastEv.type = "newTransaction"
    /\ lastEv.value \in doneTxs
    /\ pendingTxs \cup DOMAIN settledTxs # {}
    /\ Len(newTxs) = 2

\* ------------------------------------------------------------------------
\* C20
\* ------------------------------------------------------------------------
\* The transaction was in the body of no block announced so far.
InNoBodyYet(t) ==
    \A b \in DOMAIN oracleBody : t \notin Range(oracleBody[b])

\* C20: a transaction settles in the first block, in event order, whose
\* NewBlock body lists it, and keeps that settlement block; a Finalized
\* event for a block whose chain does not hold the settlement block does
\* not report it Done, even when the finalized block's body lists it.
C20_SettlesInFirstBlock ==
    [][ \A t \in Txs :
          /\ (lastEv'.type = "newBlock"
              /\ t \in Range(oracleBody'[lastEv'.blockHash])
              /\ InNoBodyYet(t))
             => /\ t \in DOMAIN settledTxs'
                /\ settledTxs'[t] = lastEv'.blockHash
                /\ \E i \in (Len(out) + 1)..Len(out') :
                     /\ out'[i].cb = "onTxSettled"
                     /\ out'[i].tx = t
                     /\ out'[i].outcome.blockHash = lastEv'.blockHash
          /\ (t \in DOMAIN settledTxs /\ t \in DOMAIN settledTxs')
             => settledTxs'[t] = settledTxs[t]
          /\ (lastEv'.type = "finalized"
              /\ t \in DOMAIN settledTxs
              /\ settledTxs[t] \notin Chain(lastEv'.blockHash))
             => /\ t \notin doneTxs'
                /\ \A i \in (Len(out) + 1)..Len(out') : out'[i].tx # t ]_vars

\* The last Finalized event named a known block whose body lists a
\* transaction that had settled before in a block on another branch; the
\* transaction is still Settled there and has received no onTxDone.
C20_Witness ==
    /\ lastEv.type = "finalized"
    /\ ~hung
    /\ lastEv.blockHash \in DOMAIN oracleBody
    /\ \E t \in Range(oracleBody[lastEv.blockHash]) \cap DOMAIN settledTxs :
         /\ settledTxs[t] # lastEv.blockHash
         /\ settledTxs[t] \notin Chain(lastEv.blockHash)
         /\ lastEv.blockHash \notin Chain(settledTxs[t])
         /\ Emitted("onTxDone", t) = {}
====
